---- MODULE Spec2Model ----
(***************************************************************************)
(* State-machine model of producer-consumer.c: the shared-memory transport *)
(* (-s) and, further down, the socket transport (-u).                      *)
(*                                                                         *)
(* Every run of the program is one process.  The kernel objects the        *)
(* processes share are modelled with the semantics of the system calls     *)
(* the source uses:                                                        *)
(*   - System V shared memory: shmget/shmat/shmdt/shmctl(IPC_RMID).  A     *)
(*     segment removed with IPC_RMID loses its key at once and is          *)
(*     destroyed when the last attachment goes away.                       *)
(*   - POSIX named semaphores: sem_open/sem_wait/sem_post/sem_close/       *)
(*     sem_unlink.  sem_unlink removes the name at once; processes that    *)
(*     have the semaphore open keep using the old object.                  *)
(* The source never tests the result of sem_open, so a handle may be       *)
(* SEM_FAILED; using it is undefined behaviour, modelled as the choice      *)
(* between the process being killed and the call returning an error.       *)
(* Neither strcpy nor the consumer's recv is bounded by the size of its    *)
(* destination; a copy past the end is undefined too.                      *)
(***************************************************************************)
EXTENDS Integers, Sequences, FiniteSets, TLC

\* ------------------------------------------------------------------ bounds
MaxDepth == 2    \* queue depths 1..MaxDepth are tried for -q
MaxChar  == 2    \* message characters are 1..MaxChar

\* The runs of a scenario: up to three producer runs and two consumer runs.
Procs     == {"P1", "P2", "P3", "C1", "C2"}
Depths    == 1..MaxDepth
Chars     == 1..MaxChar
\* the -m arguments tried: the empty string, one character, two characters
Messages  == {<<>>} \cup {<<c>> : c \in Chars} \cup {<<c, 1>> : c \in Chars}
\* the -m argument of a consumer run (required by parse_arguments, never sent)
ConsumerMessage == <<MaxChar + 1>>

\* ------------------------------------------------------- program constants
SEM_FAILED == 0                    \* sem_open's error result
NoKey      == 0                    \* no segment is bound to ftok("/tmp",'Q')
NullPtr    == 0                    \* shared_queue while no segment is mapped
EXIT_OK    == 0                    \* main's return 0
EXIT_ERR   == 1                    \* exit(1)
SIGSEGV    == 139                  \* status of a run killed for a bad access
Running    == 256                  \* not an exit status: the run has not ended
MAX_MESSAGE_LENGTH == 1024         \* #define MAX_MESSAGE_LENGTH
BACKLOG    == 1                    \* listen(sock, 1)
SIGPIPE    == 141                  \* status of a run killed by SIGPIPE
SIGABRT    == 134                  \* status of a run killed by abort()
SIGKILL    == 137                  \* status of a run killed with SIGKILL
NoSock     == 0                    \* no socket: the path is absent, the int is unset

SemNames == {"/mutex_sem", "/empty_sem", "/full_sem"}

VARIABLES
  \* ---- the invocation of each run
  role,          \* "producer" | "consumer" | "none"  (-p / -c, slot unused)
  args,          \* Arguments: message, queue_depth, enable_echo
  gate,          \* when the shell launches the run: [created, after]
  \* ---- kernel objects
  shmKey,        \* id of the segment bound to the key, or NoKey
  segs,          \* segment id -> Queue record plus kernel bookkeeping
  semNames,      \* semaphore name -> semaphore id, or SEM_FAILED if no such name
  sems,          \* semaphore id -> value
  \* ---- each process
  pc,            \* the statement the process executes next
  shmid,         \* int shmid
  shared_queue,  \* Queue *shared_queue: id of the attached segment, or NullPtr
  mutex, empty, full,   \* sem_t *mutex, *empty, *full: semaphore id or SEM_FAILED
  buffer,        \* consumer's char buffer[MAX_MESSAGE_LENGTH], as a string
  out,           \* what the process has printed on stdout
  status,        \* exit status, Running while the process runs
  \* ---- the socket transport
  sockPath,      \* id of the socket bound to SOCKET_PATH, or NoSock if no such file
  socks,         \* listening-socket id -> [state, queue of pending connections]
  conns,         \* connection id -> [data in flight, which ends are closed]
  sock,          \* int sock: the producer's connection / the consumer's listening socket
  client_sock,   \* int client_sock: the connection the consumer has accepted
  \* ---- history
  semErr,        \* a sem_wait / sem_post of the process has returned an error
  holds,         \* the semaphore the process got from sem_wait(mutex) and has not posted
  created        \* semaphore id -> the run that created it, its name, the run's queue_depth

kernel == <<shmKey, segs, semNames, sems>>
locals == <<shmid, shared_queue, mutex, empty, full, buffer, out, status>>
config == <<role, args, gate>>
net    == <<sockPath, socks, conns, sock, client_sock>>
vars   == <<config, kernel, net, pc, locals, semErr, holds, created>>

\* ----------------------------------------------------------- kernel: shm
\* A segment as shmget creates it: zero-filled, so message is the empty
\* string and is_empty is 0.  written/unread are history: a producer has
\* completed a write / the stored message has not been copied out yet.
NewSeg ==
  [alive |-> TRUE, rmid |-> FALSE, nattch |-> 0,
   message |-> <<>>, is_empty |-> 0, written |-> FALSE, unread |-> FALSE]

\* A segment the kernel has destroyed.
DeadSeg ==
  [alive |-> FALSE, rmid |-> TRUE, nattch |-> 0,
   message |-> <<>>, is_empty |-> 0, written |-> FALSE, unread |-> FALSE]

\* shmget(key, sizeof(Queue), shmflg): the id of the segment bound to the
\* key; if there is none, a new segment under IPC_CREAT and -1 without it.
shmget(shmflg) ==
  IF shmKey # NoKey
    THEN [id |-> shmKey, key |-> shmKey, segs |-> segs]
  ELSE IF shmflg = "IPC_CREAT"
    THEN [id |-> Len(segs) + 1, key |-> Len(segs) + 1, segs |-> Append(segs, NewSeg)]
    ELSE [id |-> -1, key |-> shmKey, segs |-> segs]

\* the flags the two roles pass to shmget: IPC_CREAT | 0666 and 0666
Producer_shmflg == "IPC_CREAT"
\* mutant: the consumer passes IPC_CREAT like the producer
Consumer_shmflg_creat == "IPC_CREAT"
Consumer_shmflg == "0666"

\* shmat succeeds on a segment that still exists (also one marked by
\* IPC_RMID that is still attached somewhere).
shmat_ok(id) == id \in 1..Len(segs) /\ segs[id].alive

shmat(id) == [segs EXCEPT ![id].nattch = @ + 1]

\* shmdt, and the detach the kernel does when a process ends: the last
\* detach of a segment marked by IPC_RMID destroys it.
shmdt(id) ==
  IF id = NullPtr THEN segs
  ELSE IF segs[id].rmid /\ segs[id].nattch = 1
    THEN [segs EXCEPT ![id] = DeadSeg]
    ELSE [segs EXCEPT ![id].nattch = @ - 1]

\* shmctl(shmid, IPC_RMID, NULL): the key is released at once, the segment
\* is destroyed now if nothing is attached, else marked.
shmctl_rmid(id) ==
  IF ~shmat_ok(id) THEN [key |-> shmKey, segs |-> segs]
  ELSE [key  |-> IF shmKey = id THEN NoKey ELSE shmKey,
        segs |-> IF segs[id].nattch = 0
                   THEN [segs EXCEPT ![id] = DeadSeg]
                   ELSE [segs EXCEPT ![id].rmid = TRUE]]

\* ---------------------------------------------------- kernel: semaphores
\* mutant: an existing semaphore is set to value again
sem_open_reinit(name, value) ==
  IF semNames[name] # SEM_FAILED
    THEN [h |-> semNames[name], names |-> semNames,
          sems |-> [sems EXCEPT ![semNames[name]] = value]]
    ELSE [h     |-> Len(sems) + 1,
          names |-> [semNames EXCEPT ![name] = Len(sems) + 1],
          sems  |-> Append(sems, value)]

\* mutant: a semaphore is created as a binary one, whatever value says
sem_open_binary(name, value) ==
  IF semNames[name] # SEM_FAILED
    THEN [h |-> semNames[name], names |-> semNames, sems |-> sems]
    ELSE [h     |-> Len(sems) + 1,
          names |-> [semNames EXCEPT ![name] = Len(sems) + 1],
          sems  |-> Append(sems, IF value > 1 THEN 1 ELSE value)]

\* sem_open(name, O_CREAT, 0666, value): opens the semaphore of that name
\* and ignores value, or creates it with value.
sem_open_creat(name, value) ==
  IF semNames[name] # SEM_FAILED
    THEN [h |-> semNames[name], names |-> semNames, sems |-> sems]
    ELSE [h     |-> Len(sems) + 1,
          names |-> [semNames EXCEPT ![name] = Len(sems) + 1],
          sems  |-> Append(sems, value)]

\* history: a semaphore that sem_open has just created is recorded with
\* the run that created it and that run's -q.
Created_by(p, name, newsems) ==
  IF Len(newsems) > Len(sems)
    THEN Append(created, [by |-> p, name |-> name, depth |-> args[p].queue_depth])
    ELSE created

\* sem_open(name, 0): the semaphore of that name, or SEM_FAILED.
sem_open_existing(name) == semNames[name]

\* mutant: sem_wait returns also when the count is 0
sem_wait_nonblocking(h) == sems[h] >= 0
\* sem_wait on a valid handle returns once it has taken a unit.
sem_wait_enabled(h) == sems[h] > 0
\* mutant: the unit is not taken
sem_wait_keeps(h) == sems
sem_wait(h) == [sems EXCEPT ![h] = @ - 1]
\* mutant: the post is lost
sem_post_lost(h) == sems
sem_post(h) == [sems EXCEPT ![h] = @ + 1]

\* sem_unlink(name): the name goes away; the object stays for its openers.
sem_unlink(name) == [semNames EXCEPT ![name] = SEM_FAILED]

\* ------------------------------------------------------------ C library
\* mutant: the copy stops after the first character
strcpy_first(src) == IF src = <<>> \/ Head(src) = 0 THEN <<>> ELSE <<Head(src)>>

\* strcpy(dst, src): dst receives the characters of src up to its NUL.
strcpy(src) ==
  LET nul == {i \in 1..Len(src) : src[i] = 0} IN
    IF nul = {} THEN src
    ELSE SubSeq(src, 1, (CHOOSE i \in nul : \A j \in nul : i <= j) - 1)

\* strcpy does not know the size of dst.  Both destinations in the source
\* are arrays of MAX_MESSAGE_LENGTH bytes; a string of that many
\* characters or more does not fit with its terminator, and copying it is
\* undefined: the bytes are written past the end of the array, or a build
\* with checked string functions aborts the process before the copy.
Fits(src) == Len(strcpy(src)) < MAX_MESSAGE_LENGTH
OverrunOutcomes == {"copied", "aborted"}

\* The int is_empty lies directly behind message in Queue, so a string of
\* MAX_MESSAGE_LENGTH characters or more in message runs through it, and an
\* assignment of flag to is_empty cuts the string there: after the array's
\* last byte when the int's first byte becomes 0 (flag 0, or flag 1 stored
\* big-endian), one character later when it becomes 1.
StoreFlag(msg, flag) ==
  IF Len(msg) < MAX_MESSAGE_LENGTH THEN {msg}
  ELSE LET cut == SubSeq(msg, 1, MAX_MESSAGE_LENGTH) IN
         IF flag = 0 THEN {cut} ELSE {cut, Append(cut, flag)}

\* printf("%s\n", s) appends one line to the process's stdout.
printf(o, s) == Append(o, s)

\* -------------------------------------------------------- process exits
\* exit(code), return from main, or death by signal: the kernel detaches
\* the mapped segment and the process's memory is gone.
Terminate(p, code) ==
  /\ pc' = [pc EXCEPT ![p] = "done"]
  /\ status' = [status EXCEPT ![p] = code]
  /\ shmid' = [shmid EXCEPT ![p] = 0]
  /\ shared_queue' = [shared_queue EXCEPT ![p] = NullPtr]
  /\ mutex' = [mutex EXCEPT ![p] = SEM_FAILED]
  /\ empty' = [empty EXCEPT ![p] = SEM_FAILED]
  /\ full' = [full EXCEPT ![p] = SEM_FAILED]
  /\ holds' = [holds EXCEPT ![p] = 0]

Goto(p, label) == pc' = [pc EXCEPT ![p] = label]

\* the process is aborted; the kernel detaches its segment
Abort(p) ==
  /\ Terminate(p, SIGABRT)
  /\ segs' = shmdt(shared_queue[p])

\* ------------------------------------------------------------------ main
\* The shell starts run p when its launch condition holds: gate[p].after
\* is the set of runs that must have terminated, gate[p].created says
\* whether the segment and the three semaphores must exist.
FacilityExists ==
  shmKey # NoKey /\ \A n \in SemNames : semNames[n] # SEM_FAILED

FacilityAbsent ==
  shmKey = NoKey /\ \A n \in SemNames : semNames[n] = SEM_FAILED

LaunchOK(p) ==
  /\ gate[p].created => FacilityExists
  /\ \A q \in gate[p].after : pc[q] = "done"

\* main: parse_arguments has accepted the arguments (message given,
\* queue_depth > 0, exactly one of -p/-c, -s), dispatch on the role.
main(p) ==
  /\ pc[p] = "main"
  /\ role[p] # "none"
  /\ LaunchOK(p)
  /\ Goto(p, "shmget")
  /\ UNCHANGED <<config, net, created, kernel, locals, semErr, holds>>

\* ------------------------------------------------ producer_shared_memory
\* key = ftok("/tmp", 'Q'); shmid = shmget(key, sizeof(Queue), IPC_CREAT | 0666);
\* if (shmid == -1) { perror; exit(1) }
Producer_shmget(p) ==
  /\ pc[p] = "shmget" /\ role[p] = "producer"
  /\ LET r == shmget(Producer_shmflg) IN
       IF r.id = -1
         THEN /\ Terminate(p, EXIT_ERR)
              /\ UNCHANGED <<shmKey, segs>>
         ELSE /\ shmKey' = r.key
              /\ segs' = r.segs
              /\ shmid' = [shmid EXCEPT ![p] = r.id]
              /\ Goto(p, "shmat")
              /\ UNCHANGED <<shared_queue, mutex, empty, full, status, holds>>
  /\ UNCHANGED <<config, net, created, semNames, sems, buffer, out, semErr>>

\* shared_queue = shmat(shmid, NULL, 0); if it fails: perror, exit(1)
Producer_shmat(p) ==
  /\ pc[p] = "shmat" /\ role[p] = "producer"
  /\ IF shmat_ok(shmid[p])
       THEN /\ segs' = shmat(shmid[p])
            /\ shared_queue' = [shared_queue EXCEPT ![p] = shmid[p]]
            /\ Goto(p, "open_mutex")
            /\ UNCHANGED <<shmid, mutex, empty, full, status, holds>>
       ELSE /\ Terminate(p, EXIT_ERR)
            /\ UNCHANGED segs
  /\ UNCHANGED <<config, net, created, shmKey, semNames, sems, buffer, out, semErr>>

\* mutex = sem_open("/mutex_sem", O_CREAT, 0666, 1)
Producer_open_mutex(p) ==
  /\ pc[p] = "open_mutex" /\ role[p] = "producer"
  /\ LET r == sem_open_creat("/mutex_sem", 1) IN
       /\ semNames' = r.names
       /\ sems' = r.sems
       /\ mutex' = [mutex EXCEPT ![p] = r.h]
       /\ created' = Created_by(p, "/mutex_sem", r.sems)
  /\ Goto(p, "open_empty")
  /\ UNCHANGED <<config, net, shmKey, segs, shmid, shared_queue, empty, full,
                 buffer, out, status, semErr, holds>>

\* empty = sem_open("/empty_sem", O_CREAT, 0666, args->queue_depth)
Producer_open_empty(p) ==
  /\ pc[p] = "open_empty" /\ role[p] = "producer"
  /\ LET r == sem_open_creat("/empty_sem", args[p].queue_depth) IN
       /\ semNames' = r.names
       /\ sems' = r.sems
       /\ empty' = [empty EXCEPT ![p] = r.h]
       /\ created' = Created_by(p, "/empty_sem", r.sems)
  /\ Goto(p, "open_full")
  /\ UNCHANGED <<config, net, shmKey, segs, shmid, shared_queue, mutex, full,
                 buffer, out, status, semErr, holds>>

\* full = sem_open("/full_sem", O_CREAT, 0666, 0)
Producer_open_full(p) ==
  /\ pc[p] = "open_full" /\ role[p] = "producer"
  /\ LET r == sem_open_creat("/full_sem", 0) IN
       /\ semNames' = r.names
       /\ sems' = r.sems
       /\ full' = [full EXCEPT ![p] = r.h]
       /\ created' = Created_by(p, "/full_sem", r.sems)
  /\ Goto(p, "wait_empty")
  /\ UNCHANGED <<config, net, shmKey, segs, shmid, shared_queue, mutex, empty,
                 buffer, out, status, semErr, holds>>

\* sem_wait(empty)
Producer_wait_empty(p) ==
  /\ pc[p] = "wait_empty" /\ role[p] = "producer"
  /\ sem_wait_enabled(empty[p])
  /\ sems' = sem_wait(empty[p])
  /\ Goto(p, "wait_mutex")
  /\ UNCHANGED <<config, net, created, shmKey, segs, semNames, locals, semErr, holds>>

\* sem_wait(mutex)
Producer_wait_mutex(p) ==
  /\ pc[p] = "wait_mutex" /\ role[p] = "producer"
  /\ sem_wait_enabled(mutex[p])
  /\ sems' = sem_wait(mutex[p])
  /\ holds' = [holds EXCEPT ![p] = mutex[p]]
  /\ Goto(p, "strcpy")
  /\ UNCHANGED <<config, net, created, shmKey, segs, semNames, locals, semErr>>

\* strcpy(shared_queue->message, args->message)
Producer_strcpy(p) ==
  /\ pc[p] = "strcpy" /\ role[p] = "producer"
  /\ \E o \in (IF Fits(args[p].message) THEN {"copied"} ELSE OverrunOutcomes) :
       IF o = "aborted"
         THEN /\ Abort(p)
              /\ UNCHANGED <<buffer, out>>
         ELSE /\ segs' = [segs EXCEPT
                           ![shared_queue[p]].message = strcpy(args[p].message),
                           ![shared_queue[p]].unread = TRUE]
              /\ Goto(p, "set_flag")
              /\ UNCHANGED <<locals, holds>>
  /\ UNCHANGED <<config, net, created, shmKey, semNames, sems, semErr>>

\* shared_queue->is_empty = 0; if (args->enable_echo) printf("%s\n", args->message)
Producer_set_flag(p) ==
  /\ pc[p] = "set_flag" /\ role[p] = "producer"
  /\ \E m \in StoreFlag(segs[shared_queue[p]].message, 0) :
       segs' = [segs EXCEPT ![shared_queue[p]].is_empty = 0,
                            ![shared_queue[p]].message = m,
                            ![shared_queue[p]].written = TRUE]
  /\ out' = [out EXCEPT ![p] = IF args[p].enable_echo
                                 THEN printf(@, args[p].message) ELSE @]
  /\ Goto(p, "post_mutex")
  /\ UNCHANGED <<config, net, created, shmKey, semNames, sems, shmid, shared_queue,
                 mutex, empty, full, buffer, status, semErr, holds>>

\* sem_post(mutex)
Producer_post_mutex(p) ==
  /\ pc[p] = "post_mutex" /\ role[p] = "producer"
  /\ sems' = sem_post(mutex[p])
  /\ holds' = [holds EXCEPT ![p] = 0]
  /\ Goto(p, "post_full")
  /\ UNCHANGED <<config, net, created, shmKey, segs, semNames, locals, semErr>>

\* sem_post(full)
Producer_post_full(p) ==
  /\ pc[p] = "post_full" /\ role[p] = "producer"
  /\ sems' = sem_post(full[p])
  /\ Goto(p, "shmdt")
  /\ UNCHANGED <<config, net, created, shmKey, segs, semNames, locals, semErr, holds>>

\* shmdt(shared_queue)
Producer_shmdt(p) ==
  /\ pc[p] = "shmdt" /\ role[p] = "producer"
  /\ segs' = shmdt(shared_queue[p])
  /\ shared_queue' = [shared_queue EXCEPT ![p] = NullPtr]
  /\ Goto(p, "sem_close")
  /\ UNCHANGED <<config, net, created, shmKey, semNames, sems, shmid, mutex, empty, full,
                 buffer, out, status, semErr, holds>>

\* sem_close(mutex); sem_close(empty); sem_close(full); return to main; return 0
Producer_sem_close(p) ==
  /\ pc[p] = "sem_close" /\ role[p] = "producer"
  /\ Terminate(p, EXIT_OK)
  /\ UNCHANGED <<config, net, created, kernel, buffer, out, semErr>>

producer_shared_memory(p) ==
  \/ Producer_shmget(p)
  \/ Producer_shmat(p)
  \/ Producer_open_mutex(p)
  \/ Producer_open_empty(p)
  \/ Producer_open_full(p)
  \/ Producer_wait_empty(p)
  \/ Producer_wait_mutex(p)
  \/ Producer_strcpy(p)
  \/ Producer_set_flag(p)
  \/ Producer_post_mutex(p)
  \/ Producer_post_full(p)
  \/ Producer_shmdt(p)
  \/ Producer_sem_close(p)

\* ------------------------------------------------ consumer_shared_memory
\* The consumer never tests what sem_open returned.  A semaphore call on
\* SEM_FAILED is undefined: the process is killed for the bad access, or the
\* call returns -1 (which the source ignores) and the run goes on.
UBOutcomes == {"killed", "error"}

\* the process dies of the bad access; the kernel detaches its segment
Kill(p) ==
  /\ Terminate(p, SIGSEGV)
  /\ segs' = shmdt(shared_queue[p])

\* a semaphore call of p on SEM_FAILED; on an error return p goes to label.
\* counted says whether the call is a sem_wait or sem_post.
BadSemCall(p, label, counted) ==
  \E o \in UBOutcomes :
    IF o = "killed"
      THEN /\ Kill(p)
           /\ UNCHANGED semErr
      ELSE /\ Goto(p, label)
           /\ semErr' = [semErr EXCEPT ![p] = @ \/ counted]
           /\ UNCHANGED <<segs, shmid, shared_queue, mutex, empty, full, status, holds>>

\* key = ftok("/tmp", 'Q'); shmid = shmget(key, sizeof(Queue), 0666);
\* if (shmid == -1) { perror; exit(1) }
Consumer_shmget(p) ==
  /\ pc[p] = "shmget" /\ role[p] = "consumer"
  /\ LET r == shmget(Consumer_shmflg) IN
       IF r.id = -1
         THEN /\ Terminate(p, EXIT_ERR)
              /\ UNCHANGED <<shmKey, segs>>
         ELSE /\ shmKey' = r.key
              /\ segs' = r.segs
              /\ shmid' = [shmid EXCEPT ![p] = r.id]
              /\ Goto(p, "shmat")
              /\ UNCHANGED <<shared_queue, mutex, empty, full, status, holds>>
  /\ UNCHANGED <<config, net, created, semNames, sems, buffer, out, semErr>>

\* shared_queue = shmat(shmid, NULL, 0); if it fails: perror, exit(1)
Consumer_shmat(p) ==
  /\ pc[p] = "shmat" /\ role[p] = "consumer"
  /\ IF shmat_ok(shmid[p])
       THEN /\ segs' = shmat(shmid[p])
            /\ shared_queue' = [shared_queue EXCEPT ![p] = shmid[p]]
            /\ Goto(p, "open_mutex")
            /\ UNCHANGED <<shmid, mutex, empty, full, status, holds>>
       ELSE /\ Terminate(p, EXIT_ERR)
            /\ UNCHANGED segs
  /\ UNCHANGED <<config, net, created, shmKey, semNames, sems, buffer, out, semErr>>

\* mutex = sem_open("/mutex_sem", 0)
Consumer_open_mutex(p) ==
  /\ pc[p] = "open_mutex" /\ role[p] = "consumer"
  /\ mutex' = [mutex EXCEPT ![p] = sem_open_existing("/mutex_sem")]
  /\ Goto(p, "open_empty")
  /\ UNCHANGED <<config, net, created, kernel, shmid, shared_queue, empty, full,
                 buffer, out, status, semErr, holds>>

\* empty = sem_open("/empty_sem", 0)
Consumer_open_empty(p) ==
  /\ pc[p] = "open_empty" /\ role[p] = "consumer"
  /\ empty' = [empty EXCEPT ![p] = sem_open_existing("/empty_sem")]
  /\ Goto(p, "open_full")
  /\ UNCHANGED <<config, net, created, kernel, shmid, shared_queue, mutex, full,
                 buffer, out, status, semErr, holds>>

\* full = sem_open("/full_sem", 0)
Consumer_open_full(p) ==
  /\ pc[p] = "open_full" /\ role[p] = "consumer"
  /\ full' = [full EXCEPT ![p] = sem_open_existing("/full_sem")]
  /\ Goto(p, "wait_full")
  /\ UNCHANGED <<config, net, created, kernel, shmid, shared_queue, mutex, empty,
                 buffer, out, status, semErr, holds>>

\* sem_wait(full)
Consumer_wait_full(p) ==
  /\ pc[p] = "wait_full" /\ role[p] = "consumer"
  /\ IF full[p] = SEM_FAILED
       THEN /\ BadSemCall(p, "wait_mutex", TRUE)
            /\ UNCHANGED sems
       ELSE /\ sem_wait_enabled(full[p])
            /\ sems' = sem_wait(full[p])
            /\ Goto(p, "wait_mutex")
            /\ UNCHANGED <<segs, shmid, shared_queue, mutex, empty, full,
                           status, semErr, holds>>
  /\ UNCHANGED <<config, net, created, shmKey, semNames, buffer, out>>

\* sem_wait(mutex)
Consumer_wait_mutex(p) ==
  /\ pc[p] = "wait_mutex" /\ role[p] = "consumer"
  /\ IF mutex[p] = SEM_FAILED
       THEN /\ BadSemCall(p, "strcpy", TRUE)
            /\ UNCHANGED sems
       ELSE /\ sem_wait_enabled(mutex[p])
            /\ sems' = sem_wait(mutex[p])
            /\ holds' = [holds EXCEPT ![p] = mutex[p]]
            /\ Goto(p, "strcpy")
            /\ UNCHANGED <<segs, shmid, shared_queue, mutex, empty, full,
                           status, semErr>>
  /\ UNCHANGED <<config, net, created, shmKey, semNames, buffer, out>>

\* strcpy(buffer, shared_queue->message)
Consumer_strcpy(p) ==
  /\ pc[p] = "strcpy" /\ role[p] = "consumer"
  /\ \E o \in (IF Fits(segs[shared_queue[p]].message)
                   THEN {"copied"} ELSE OverrunOutcomes) :
       IF o = "aborted"
         THEN /\ Abort(p)
              /\ UNCHANGED <<buffer, out>>
         ELSE /\ buffer' = [buffer EXCEPT ![p] = strcpy(segs[shared_queue[p]].message)]
              /\ segs' = [segs EXCEPT ![shared_queue[p]].unread = FALSE]
              /\ Goto(p, "set_flag")
              /\ UNCHANGED <<shmid, shared_queue, mutex, empty, full, out, status, holds>>
  /\ UNCHANGED <<config, net, created, shmKey, semNames, sems, semErr>>

\* shared_queue->is_empty = 1; if (args->enable_echo) printf("%s\n", buffer)
Consumer_set_flag(p) ==
  /\ pc[p] = "set_flag" /\ role[p] = "consumer"
  /\ \E m \in StoreFlag(segs[shared_queue[p]].message, 1) :
       segs' = [segs EXCEPT ![shared_queue[p]].is_empty = 1,
                            ![shared_queue[p]].message = m]
  /\ out' = [out EXCEPT ![p] = IF args[p].enable_echo
                                 THEN printf(@, buffer[p]) ELSE @]
  /\ Goto(p, "post_mutex")
  /\ UNCHANGED <<config, net, created, shmKey, semNames, sems, shmid, shared_queue,
                 mutex, empty, full, buffer, status, semErr, holds>>

\* sem_post(mutex)
Consumer_post_mutex(p) ==
  /\ pc[p] = "post_mutex" /\ role[p] = "consumer"
  /\ IF mutex[p] = SEM_FAILED
       THEN /\ BadSemCall(p, "post_empty", TRUE)
            /\ UNCHANGED sems
       ELSE /\ sems' = sem_post(mutex[p])
            /\ holds' = [holds EXCEPT ![p] = 0]
            /\ Goto(p, "post_empty")
            /\ UNCHANGED <<segs, shmid, shared_queue, mutex, empty, full,
                           status, semErr>>
  /\ UNCHANGED <<config, net, created, shmKey, semNames, buffer, out>>

\* sem_post(empty)
Consumer_post_empty(p) ==
  /\ pc[p] = "post_empty" /\ role[p] = "consumer"
  /\ IF empty[p] = SEM_FAILED
       THEN /\ BadSemCall(p, "shmdt", TRUE)
            /\ UNCHANGED sems
       ELSE /\ sems' = sem_post(empty[p])
            /\ Goto(p, "shmdt")
            /\ UNCHANGED <<segs, shmid, shared_queue, mutex, empty, full,
                           status, semErr, holds>>
  /\ UNCHANGED <<config, net, created, shmKey, semNames, buffer, out>>

\* shmdt(shared_queue)
Consumer_shmdt(p) ==
  /\ pc[p] = "shmdt" /\ role[p] = "consumer"
  /\ segs' = shmdt(shared_queue[p])
  /\ shared_queue' = [shared_queue EXCEPT ![p] = NullPtr]
  /\ Goto(p, "sem_close")
  /\ UNCHANGED <<config, net, created, shmKey, semNames, sems, shmid, mutex, empty, full,
                 buffer, out, status, semErr, holds>>

\* sem_close(mutex); sem_close(empty); sem_close(full)
Consumer_sem_close(p) ==
  /\ pc[p] = "sem_close" /\ role[p] = "consumer"
  /\ IF SEM_FAILED \in {mutex[p], empty[p], full[p]}
       THEN BadSemCall(p, "rmid", FALSE)
       ELSE /\ Goto(p, "rmid")
            /\ UNCHANGED <<segs, shmid, shared_queue, mutex, empty, full,
                           status, semErr, holds>>
  /\ UNCHANGED <<config, net, created, shmKey, semNames, sems, buffer, out>>

\* shmctl(shmid, IPC_RMID, NULL)
Consumer_rmid(p) ==
  /\ pc[p] = "rmid" /\ role[p] = "consumer"
  /\ LET r == shmctl_rmid(shmid[p]) IN
       /\ shmKey' = r.key
       /\ segs' = r.segs
  /\ Goto(p, "unlink_mutex")
  /\ UNCHANGED <<config, net, created, semNames, sems, locals, semErr, holds>>

\* sem_unlink("/mutex_sem")
Consumer_unlink_mutex(p) ==
  /\ pc[p] = "unlink_mutex" /\ role[p] = "consumer"
  /\ semNames' = sem_unlink("/mutex_sem")
  /\ Goto(p, "unlink_empty")
  /\ UNCHANGED <<config, net, created, shmKey, segs, sems, locals, semErr, holds>>

\* sem_unlink("/empty_sem")
Consumer_unlink_empty(p) ==
  /\ pc[p] = "unlink_empty" /\ role[p] = "consumer"
  /\ semNames' = sem_unlink("/empty_sem")
  /\ Goto(p, "unlink_full")
  /\ UNCHANGED <<config, net, created, shmKey, segs, sems, locals, semErr, holds>>

\* sem_unlink("/full_sem"); return to main; return 0.  A run that has
\* written past the end of buffer returns through a damaged stack frame: it
\* ends normally or is aborted by the stack check.
Consumer_unlink_full(p) ==
  /\ pc[p] = "unlink_full" /\ role[p] = "consumer"
  /\ semNames' = sem_unlink("/full_sem")
  /\ \E code \in (IF Len(buffer[p]) < MAX_MESSAGE_LENGTH
                    THEN {EXIT_OK} ELSE {EXIT_OK, SIGABRT}) :
       Terminate(p, code)
  /\ UNCHANGED <<config, net, created, shmKey, segs, sems, buffer, out, semErr>>

consumer_shared_memory(p) ==
  \/ Consumer_shmget(p)
  \/ Consumer_shmat(p)
  \/ Consumer_open_mutex(p)
  \/ Consumer_open_empty(p)
  \/ Consumer_open_full(p)
  \/ Consumer_wait_full(p)
  \/ Consumer_wait_mutex(p)
  \/ Consumer_strcpy(p)
  \/ Consumer_set_flag(p)
  \/ Consumer_post_mutex(p)
  \/ Consumer_post_empty(p)
  \/ Consumer_shmdt(p)
  \/ Consumer_sem_close(p)
  \/ Consumer_rmid(p)
  \/ Consumer_unlink_mutex(p)
  \/ Consumer_unlink_empty(p)
  \/ Consumer_unlink_full(p)

\* ------------------------------------------------------- specifications
Next == \E p \in Procs : main(p) \/ producer_shared_memory(p) \/ consumer_shared_memory(p)

\* The state before any run: no segment, no semaphore, no process started.
InitKernel ==
  /\ shmKey = NoKey
  /\ segs = <<>>
  /\ semNames = [n \in SemNames |-> SEM_FAILED]
  /\ sems = <<>>
  /\ created = <<>>
  /\ sockPath = NoSock
  /\ socks = <<>>
  /\ conns = <<>>

InitLocals ==
  /\ pc = [p \in Procs |-> "main"]
  /\ shmid = [p \in Procs |-> 0]
  /\ shared_queue = [p \in Procs |-> NullPtr]
  /\ mutex = [p \in Procs |-> SEM_FAILED]
  /\ empty = [p \in Procs |-> SEM_FAILED]
  /\ full = [p \in Procs |-> SEM_FAILED]
  /\ buffer = [p \in Procs |-> <<>>]
  /\ out = [p \in Procs |-> <<>>]
  /\ status = [p \in Procs |-> Running]
  /\ semErr = [p \in Procs |-> FALSE]
  /\ holds = [p \in Procs |-> 0]
  /\ sock = [p \in Procs |-> NoSock]
  /\ client_sock = [p \in Procs |-> NoSock]

Args(m, q, e) == [message |-> m, queue_depth |-> q, enable_echo |-> e]

\* launch conditions
Anytime       == [created |-> FALSE, after |-> {}]
Created   == [created |-> TRUE,  after |-> {}]
After(S)  == [created |-> FALSE, after |-> S]
CreatedAfter(S) == [created |-> TRUE, after |-> S]

\* a slot no run uses
NoArgs == Args(<<>>, 1, FALSE)

\* One producer run and one consumer run.  The consumer is launched at any
\* time, once the facility exists, or once the producer has terminated.
Init ==
  /\ InitKernel
  /\ InitLocals
  /\ role = [p \in Procs |-> CASE p = "P1" -> "producer"
                               [] p = "C1" -> "consumer"
                               [] OTHER    -> "none"]
  /\ \E g \in {Anytime, Created, After({"P1"})} :
       gate = [p \in Procs |-> IF p = "C1" THEN g ELSE Anytime]
  /\ \E m \in Messages, d \in Depths, e \in BOOLEAN :
       args = [p \in Procs |-> CASE p = "P1" -> Args(m, d, e)
                                 [] p = "C1" -> Args(ConsumerMessage, d, e)
                                 [] OTHER    -> NoArgs]

Spec == Init /\ [][Next]_vars

\* Two producer runs with messages <<1>> and <<2>> and queue depths of
\* their own, and one consumer run launched at any time or once the
\* facility exists.
InitTwoProducers ==
  /\ InitKernel
  /\ InitLocals
  /\ role = [p \in Procs |-> CASE p \in {"P1", "P2"} -> "producer"
                               [] p = "C1"           -> "consumer"
                               [] OTHER              -> "none"]
  /\ \E g \in {Anytime, Created} :
       gate = [p \in Procs |-> IF p = "C1" THEN g ELSE Anytime]
  /\ \E d1 \in Depths, d2 \in Depths :
       args = [p \in Procs |-> CASE p = "P1" -> Args(<<1>>, d1, FALSE)
                                 [] p = "P2" -> Args(<<2>>, d2, FALSE)
                                 [] p = "C1" -> Args(ConsumerMessage, d1, TRUE)
                                 [] OTHER    -> NoArgs]

SpecTwoProducers == InitTwoProducers /\ [][Next]_vars

\* Runs around a consumer's teardown, all with queue depth 1; no consumer
\* is launched before the segment and the three semaphores exist.
\*   "late producer":  P1, P2 at any time, C1, and P3 once C1 has terminated;
\*   "late consumer":  P1, P2 at any time, C1, and once P1 and P2 have
\*                     terminated a third producer P3 and a second consumer C2.
InitTeardown ==
  /\ InitKernel
  /\ InitLocals
  /\ \E scenario \in {"late producer", "late consumer"} :
       /\ role = [p \in Procs |->
                    CASE p \in {"P1", "P2", "P3"} -> "producer"
                      [] p = "C1" -> "consumer"
                      [] p = "C2" -> IF scenario = "late consumer"
                                       THEN "consumer" ELSE "none"]
       /\ gate = [p \in Procs |->
                    CASE p \in {"P1", "P2"} -> Anytime
                      [] p = "C1" -> Created
                      [] p = "P3" -> IF scenario = "late producer"
                                       THEN After({"C1"}) ELSE After({"P1", "P2"})
                      [] p = "C2" -> CreatedAfter({"P1", "P2"})]
  /\ args = [p \in Procs |-> CASE p = "P1" -> Args(<<1>>, 1, FALSE)
                               [] p = "P2" -> Args(<<2>>, 1, FALSE)
                               [] p = "P3" -> Args(<<1, 1>>, 1, FALSE)
                               [] OTHER    -> Args(ConsumerMessage, 1, TRUE)]

SpecTeardown == InitTeardown /\ [][Next]_vars

\* The same runs under fair scheduling: a run that has been launched and
\* is not blocked in sem_wait keeps taking steps, and the shell launches
\* the run once its launch condition holds.
Run(p) == main(p) \/ producer_shared_memory(p) \/ consumer_shared_memory(p)
Fairness == \A p \in Procs : WF_vars(Run(p))
SpecFair == Init /\ [][Next]_vars /\ Fairness

\* ================================================================ claims
\* the consumer has copied the mailbox out / has passed its printf
HasRead(c) ==
  \/ pc[c] \in {"set_flag", "post_mutex", "post_empty", "shmdt", "sem_close",
                "rmid", "unlink_mutex", "unlink_empty", "unlink_full"}
  \/ pc[c] = "done" /\ status[c] = EXIT_OK
HasPrinted(c) == HasRead(c) /\ pc[c] # "set_flag"

\* the consumer is launched after the producer run has completed
SequentialPair == gate["C1"] = After({"P1"})

\* C1: from an absent facility, when one producer run with message m has
\* completed and one consumer run is then started, the text the consumer
\* copies out of the mailbox is exactly m, and it prints exactly m when echo
\* is set (and nothing otherwise).
C1_ReadBack ==
  SequentialPair =>
    /\ HasRead("C1") => buffer["C1"] = args["P1"].message
    /\ HasPrinted("C1") =>
         out["C1"] = IF args["C1"].enable_echo
                       THEN <<args["P1"].message>> ELSE <<>>

C1_Witness ==
  /\ SequentialPair
  /\ pc["C1"] = "done" /\ status["C1"] = EXIT_OK /\ status["P1"] = EXIT_OK
  /\ args["P1"].message = <<2, 1>>
  /\ buffer["C1"] = <<2, 1>>
  /\ out["C1"] = << <<2, 1>> >>

\* C6: a consumer run whose shmget finds neither the segment nor any of the
\* three semaphores terminates in that step with exit status 1; it is never
\* blocked there, changes no kernel object and copies nothing out of a
\* mailbox.
C6_AbsentFacilityFails ==
  /\ [](\A c \in Procs :
          role[c] = "consumer" /\ pc[c] = "shmget" => ENABLED Consumer_shmget(c))
  /\ [][\A c \in Procs :
          (role[c] = "consumer" /\ pc[c] = "shmget" /\ pc'[c] # "shmget"
             /\ FacilityAbsent)
          => /\ pc'[c] = "done"
             /\ status'[c] = EXIT_ERR
             /\ buffer'[c] = buffer[c]
             /\ UNCHANGED kernel]_vars

C6_Witness ==
  /\ pc["C1"] = "done" /\ status["C1"] = EXIT_ERR
  /\ pc["P1"] = "main"
  /\ FacilityAbsent
  /\ buffer["C1"] = <<>>

\* C8: with one producer run and one consumer run, the consumer launched
\* once the producer has created the segment and the three semaphores, under
\* fair scheduling both runs eventually have terminated with exit status 0,
\* the consumer having copied out the message the producer wrote.
BothDone ==
  /\ pc["P1"] = "done" /\ status["P1"] = EXIT_OK
  /\ pc["C1"] = "done" /\ status["C1"] = EXIT_OK
  /\ buffer["C1"] = args["P1"].message

C8_BothTerminate == (gate["C1"] = Created) => <>BothDone

C8_Witness == gate["C1"] = Created /\ BothDone

\* C10: a run one of whose sem_wait / sem_post calls has returned an error
\* does not go on to copy the mailbox, and does not end with exit status 0.
\* (The claim asks for exit status 1; a run killed by a later bad access is
\* not held against it here.)
C10_SemFailureExits ==
  \A p \in Procs :
    semErr[p] => /\ pc[p] # "set_flag"
                 /\ pc[p] = "done" => status[p] # EXIT_OK

\* the producer has taken its unit of empty-slots
PastEmpty(p) ==
  \/ pc[p] \in {"wait_mutex", "strcpy", "set_flag", "post_mutex", "post_full",
                "shmdt", "sem_close"}
  \/ pc[p] = "done" /\ status[p] = EXIT_OK

\* the consumer has released its unit of empty-slots
ConsumerReleased(c) ==
  /\ ~semErr[c]
  /\ \/ pc[c] \in {"shmdt", "sem_close", "rmid", "unlink_mutex", "unlink_empty",
                   "unlink_full"}
     \/ pc[c] = "done" /\ status[c] = EXIT_OK

DepthOne == \A p \in Procs : role[p] = "producer" => args[p].queue_depth = 1

\* C5: with queue depth 1 and an initially absent facility, of two producer
\* runs only one gets past its empty-slots acquire as long as no consumer
\* run has released a unit of empty-slots: the other has not written and,
\* once at sem_wait(empty), is blocked there.
C5_SecondProducerBlocks ==
  (DepthOne /\ gate["C1"] = Created /\ ~ConsumerReleased("C1")) =>
    \A p, q \in {"P1", "P2"} :
      (p # q /\ PastEmpty(p)) =>
        /\ ~PastEmpty(q)
        /\ pc[q] = "wait_empty" => ~ENABLED Producer_wait_empty(q)

C5_Witness ==
  /\ DepthOne /\ gate["C1"] = Created
  /\ pc["P1"] = "done" /\ status["P1"] = EXIT_OK
  /\ pc["P2"] = "wait_empty" /\ ~ENABLED Producer_wait_empty("P2")
  /\ pc["C1"] = "main"

\* C9: a producer's sem_open changes the count of no semaphore that exists:
\* if the name exists the producer gets that semaphore and nothing else
\* changes, and only if the name is absent a semaphore is created, with the
\* initial value of this call (1, the run's queue depth, 0).
OpenName(l) ==
  CASE l = "open_mutex" -> "/mutex_sem"
    [] l = "open_empty" -> "/empty_sem"
    [] l = "open_full"  -> "/full_sem"

OpenValue(p, l) ==
  CASE l = "open_mutex" -> 1
    [] l = "open_empty" -> args[p].queue_depth
    [] l = "open_full"  -> 0

C9_OpenKeepsCounts ==
  [][\A p \in Procs :
       (role[p] = "producer" /\ pc[p] \in {"open_mutex", "open_empty", "open_full"}
          /\ pc'[p] # pc[p])
       => /\ \A id \in 1..Len(sems) : sems'[id] = sems[id]
          /\ IF semNames[OpenName(pc[p])] # SEM_FAILED
               THEN /\ sems' = sems
                    /\ semNames' = semNames
               ELSE /\ Len(sems') = Len(sems) + 1
                    /\ sems'[Len(sems')] = OpenValue(p, pc[p])
                    /\ semNames'[OpenName(pc[p])] = Len(sems')]_vars

\* P2, given depth 2, has opened the empty-slots semaphore P1 created with
\* depth 1; its count is still 1
C9_Witness ==
  /\ args["P1"].queue_depth = 1 /\ args["P2"].queue_depth = 2
  /\ pc["P1"] = "open_full" /\ pc["P2"] = "open_full"
  /\ pc["C1"] = "main"
  /\ empty["P1"] = 2 /\ empty["P2"] = empty["P1"]
  /\ mutex["P1"] = 1 /\ mutex["P2"] = 1
  /\ sems[empty["P2"]] = 1

\* C2: no two processes are at the same time between their sem_wait(mutex)
\* and their sem_post(mutex) on the same mailbox.
C2_MutualExclusion ==
  \A p, q \in Procs :
    (p # q /\ holds[p] # 0 /\ holds[q] # 0) => shared_queue[p] # shared_queue[q]

\* C3: with queue depth 1, no producer copies its message into a mailbox
\* that holds a message no consumer has copied out yet.
C3_NoOverwrite ==
  [][\A p \in Procs :
       (DepthOne /\ role[p] = "producer" /\ pc[p] = "strcpy" /\ pc'[p] = "set_flag")
       => ~segs[shared_queue[p]].unread]_vars

\* C4: a consumer copies a mailbox out only after a producer has completed
\* a write to that same mailbox.  (Stated for the consumers whose sem_wait
\* calls have both succeeded; a consumer whose sem_open failed breaks it
\* too, see C10.)
C4_ReadAfterWrite ==
  [][\A c \in Procs :
       (role[c] = "consumer" /\ pc[c] = "strcpy" /\ pc'[c] = "set_flag"
          /\ ~semErr[c])
       => segs[shared_queue[c]].written]_vars

\* no run other than p is in progress
Quiescent(p) == \A q \in Procs \ {p} : pc[q] \in {"main", "done"}

\* C7: when a consumer run completes while no other run is in progress, no
\* segment is bound to the key and none of the three semaphore names exists
\* any more, so that the next producer run creates all four anew.
C7_TeardownComplete ==
  [][\A c \in Procs :
       (role[c] = "consumer" /\ pc[c] = "unlink_full" /\ pc'[c] = "done"
          /\ status'[c] = EXIT_OK /\ Quiescent(c))
       => FacilityAbsent']_vars

\* the consumer's sem_open calls that have returned, and whether one of
\* them has returned SEM_FAILED
OpenedHandles(c) ==
  CASE pc[c] \in {"main", "shmget", "shmat", "open_mutex", "done"} -> {}
    [] pc[c] = "open_empty" -> {mutex[c]}
    [] pc[c] = "open_full"  -> {mutex[c], empty[c]}
    [] OTHER                -> {mutex[c], empty[c], full[c]}
FoundSemaphoreAbsent(c) == SEM_FAILED \in OpenedHandles(c)

\* C11: a consumer run that has attached the segment and found one of the
\* three semaphores absent is still in its sem_open calls or about to leave
\* them: it has neither waited on a semaphore nor copied the mailbox, and
\* no consumer run ends killed by a signal instead of with exit status 1.
C11_MissingSemaphoreExits ==
  \A c \in Procs :
    role[c] = "consumer" =>
      /\ FoundSemaphoreAbsent(c) => pc[c] \in {"open_empty", "open_full", "wait_full"}
      /\ status[c] # SIGSEGV

\* ======================================================= socket transport

\* everything the socket transport does not touch
shmstate == <<kernel, shmid, shared_queue, mutex, empty, full, semErr, holds, created>>

\* A socket that bind has given the name SOCKET_PATH, and a connection
\* between a producer's socket and the socket accept returns.
NewSock == [state |-> "bound", queue |-> <<>>]
NewConn == [data |-> <<>>, wclosed |-> FALSE, rclosed |-> FALSE]

\* the file SOCKET_PATH names a socket that is listening
Listening == sockPath # NoSock /\ socks[sockPath].state = "listening"

\* mutant: connect is refused only when the file is absent
connect_waits == sockPath = NoSock

\* connect fails with ENOENT when SOCKET_PATH does not exist and with
\* ECONNREFUSED when the socket of that name is not listening (bound only,
\* or closed by a consumer that has ended).
connect_refused == ~Listening

\* recv on a stream socket returns at least one and at most len of the
\* bytes in flight, and 0 once the peer has closed and nothing is left.
recv_sizes(c, len) ==
  IF conns[c].data = <<>> THEN {0}
  ELSE 1..(IF Len(conns[c].data) < len THEN Len(conns[c].data) ELSE len)

recv_enabled(c) == conns[c].data # <<>> \/ conns[c].wclosed

SockExit(p, code) ==
  /\ pc' = [pc EXCEPT ![p] = "done"]
  /\ status' = [status EXCEPT ![p] = code]
  /\ sock' = [sock EXCEPT ![p] = NoSock]
  /\ client_sock' = [client_sock EXCEPT ![p] = NoSock]

\* main with -u: dispatch to producer_socket / consumer_socket, which
\* start with sock = socket(AF_UNIX, SOCK_STREAM, 0)
main_socket(p) ==
  /\ pc[p] = "main"
  /\ role[p] # "none"
  /\ LaunchOK(p)
  /\ Goto(p, IF role[p] = "producer" THEN "connect" ELSE "unlink")
  /\ UNCHANGED <<config, shmstate, net, buffer, out, status>>

\* if (connect(sock, &server, ...) == -1) { perror("connect"); exit(1); }
\* A connect to a listening socket returns once the connection is queued,
\* and waits while the queue is longer than the backlog.
Producer_connect(p) ==
  /\ pc[p] = "connect" /\ role[p] = "producer"
  /\ IF connect_refused
       THEN /\ SockExit(p, EXIT_ERR)
            /\ UNCHANGED <<socks, conns>>
       ELSE /\ Len(socks[sockPath].queue) <= BACKLOG
            /\ conns' = Append(conns, NewConn)
            /\ socks' = [socks EXCEPT ![sockPath].queue = Append(@, Len(conns) + 1)]
            /\ sock' = [sock EXCEPT ![p] = Len(conns) + 1]
            /\ Goto(p, "send")
            /\ UNCHANGED <<client_sock, status>>
  /\ UNCHANGED <<config, shmstate, sockPath, buffer, out>>

\* if (send(sock, args->message, strlen(args->message), 0) == -1) exit(1);
\* a send to a connection whose other end is closed raises SIGPIPE.
Producer_send(p) ==
  /\ pc[p] = "send" /\ role[p] = "producer"
  /\ IF conns[sock[p]].rclosed
       THEN /\ SockExit(p, SIGPIPE)
            /\ conns' = [conns EXCEPT ![sock[p]].wclosed = TRUE]
       ELSE /\ conns' = [conns EXCEPT ![sock[p]].data = @ \o strcpy(args[p].message)]
            /\ Goto(p, "close")
            /\ UNCHANGED <<sock, client_sock, status>>
  /\ UNCHANGED <<config, shmstate, sockPath, socks, buffer, out>>

\* if (args->enable_echo) printf("%s\n", args->message); close(sock); return 0
Producer_close(p) ==
  /\ pc[p] = "close" /\ role[p] = "producer"
  /\ out' = [out EXCEPT ![p] = IF args[p].enable_echo
                                 THEN printf(@, args[p].message) ELSE @]
  /\ conns' = [conns EXCEPT ![sock[p]].wclosed = TRUE]
  /\ SockExit(p, EXIT_OK)
  /\ UNCHANGED <<config, shmstate, sockPath, socks, buffer>>

producer_socket(p) ==
  \/ Producer_connect(p)
  \/ Producer_send(p)
  \/ Producer_close(p)

\* unlink(SOCKET_PATH): removes the file, whichever socket it names
Consumer_unlink(p) ==
  /\ pc[p] = "unlink" /\ role[p] = "consumer"
  /\ sockPath' = NoSock
  /\ Goto(p, "bind")
  /\ UNCHANGED <<config, shmstate, socks, conns, sock, client_sock, buffer, out, status>>

\* if (bind(sock, &server, ...) == -1) { perror("bind"); exit(1); }
\* bind fails with EADDRINUSE when the file exists.
Consumer_bind(p) ==
  /\ pc[p] = "bind" /\ role[p] = "consumer"
  /\ IF sockPath # NoSock
       THEN /\ SockExit(p, EXIT_ERR)
            /\ UNCHANGED <<sockPath, socks>>
       ELSE /\ socks' = Append(socks, NewSock)
            /\ sockPath' = Len(socks) + 1
            /\ sock' = [sock EXCEPT ![p] = Len(socks) + 1]
            /\ Goto(p, "listen")
            /\ UNCHANGED <<client_sock, status>>
  /\ UNCHANGED <<config, shmstate, conns, buffer, out>>

\* listen(sock, 1)
Consumer_listen(p) ==
  /\ pc[p] = "listen" /\ role[p] = "consumer"
  /\ socks' = [socks EXCEPT ![sock[p]].state = "listening"]
  /\ Goto(p, "accept")
  /\ UNCHANGED <<config, shmstate, sockPath, conns, sock, client_sock, buffer, out, status>>

\* client_sock = accept(sock, ...): waits for a queued connection
Consumer_accept(p) ==
  /\ pc[p] = "accept" /\ role[p] = "consumer"
  /\ socks[sock[p]].queue # <<>>
  /\ client_sock' = [client_sock EXCEPT ![p] = Head(socks[sock[p]].queue)]
  /\ socks' = [socks EXCEPT ![sock[p]].queue = Tail(@)]
  /\ Goto(p, "recv")
  /\ UNCHANGED <<config, shmstate, sockPath, conns, sock, buffer, out, status>>

\* received = recv(client_sock, buffer, sizeof(buffer), 0);
\* buffer[received] = '\0';
\* buffer is the string the array then starts with; with received equal to
\* sizeof(buffer) its terminator lies one byte past the array.
Consumer_recv(p) ==
  /\ pc[p] = "recv" /\ role[p] = "consumer"
  /\ recv_enabled(client_sock[p])
  /\ \E received \in recv_sizes(client_sock[p], MAX_MESSAGE_LENGTH) :
       /\ buffer' = [buffer EXCEPT ![p] =
                       strcpy(SubSeq(conns[client_sock[p]].data, 1, received))]
       /\ conns' = [conns EXCEPT ![client_sock[p]].data =
                       SubSeq(@, received + 1, Len(@))]
  /\ Goto(p, "close_client")
  /\ UNCHANGED <<config, shmstate, sockPath, socks, sock, client_sock, out, status>>

\* if (args->enable_echo) printf("%s\n", buffer); close(client_sock);
Consumer_close_client(p) ==
  /\ pc[p] = "close_client" /\ role[p] = "consumer"
  /\ out' = [out EXCEPT ![p] = IF args[p].enable_echo
                                 THEN printf(@, buffer[p]) ELSE @]
  /\ conns' = [conns EXCEPT ![client_sock[p]].rclosed = TRUE]
  /\ Goto(p, "close_sock")
  /\ UNCHANGED <<config, shmstate, sockPath, socks, sock, client_sock, buffer, status>>

\* close(sock): the connections still queued are reset
Consumer_close_sock(p) ==
  /\ pc[p] = "close_sock" /\ role[p] = "consumer"
  /\ socks' = [socks EXCEPT ![sock[p]] = [state |-> "closed", queue |-> <<>>]]
  /\ conns' = [c \in 1..Len(conns) |->
                 IF \E i \in 1..Len(socks[sock[p]].queue) : socks[sock[p]].queue[i] = c
                   THEN [conns[c] EXCEPT !.rclosed = TRUE]
                   ELSE conns[c]]
  /\ Goto(p, "unlink_end")
  /\ UNCHANGED <<config, shmstate, sockPath, sock, client_sock, buffer, out, status>>

\* unlink(SOCKET_PATH); return 0.  A run that has written past the end of
\* buffer returns through a damaged stack frame: it ends normally or is
\* aborted by the stack check.
Consumer_unlink_end(p) ==
  /\ pc[p] = "unlink_end" /\ role[p] = "consumer"
  /\ sockPath' = NoSock
  /\ \E code \in (IF Len(buffer[p]) < MAX_MESSAGE_LENGTH
                    THEN {EXIT_OK} ELSE {EXIT_OK, SIGABRT}) :
       SockExit(p, code)
  /\ UNCHANGED <<config, shmstate, socks, conns, buffer, out>>

consumer_socket(p) ==
  \/ Consumer_unlink(p)
  \/ Consumer_bind(p)
  \/ Consumer_listen(p)
  \/ Consumer_accept(p)
  \/ Consumer_recv(p)
  \/ Consumer_close_client(p)
  \/ Consumer_close_sock(p)
  \/ Consumer_unlink_end(p)

NextSocket == \E p \in Procs : main_socket(p) \/ producer_socket(p) \/ consumer_socket(p)

\* One producer run and one consumer run with -u, started in any order.
\* SOCKET_PATH is absent, or is the file an earlier consumer run that was
\* killed has left behind (its socket is closed).
InitSocket ==
  /\ InitLocals
  /\ shmKey = NoKey /\ segs = <<>> /\ sems = <<>> /\ created = <<>>
  /\ semNames = [n \in SemNames |-> SEM_FAILED]
  /\ conns = <<>>
  /\ \E stale \in BOOLEAN :
       /\ socks = IF stale THEN <<[state |-> "closed", queue |-> <<>>]>> ELSE <<>>
       /\ sockPath = IF stale THEN 1 ELSE NoSock
  /\ role = [p \in Procs |-> CASE p = "P1" -> "producer"
                               [] p = "C1" -> "consumer"
                               [] OTHER    -> "none"]
  /\ gate = [p \in Procs |-> Anytime]
  /\ \E m \in Messages, e \in BOOLEAN :
       args = [p \in Procs |-> CASE p = "P1" -> Args(m, 1, e)
                                 [] p = "C1" -> Args(ConsumerMessage, 1, e)
                                 [] OTHER    -> NoArgs]

SpecSocket == InitSocket /\ [][NextSocket]_vars

\* C13: a producer run with -u whose connect finds no listening consumer
\* (SOCKET_PATH absent, bound but not yet listening, or left behind by a
\* consumer that has ended) is never blocked in connect, and its connect
\* step ends the run with exit status 1.
C13_ConnectFailsAtOnce ==
  /\ [](\A p \in Procs :
          (role[p] = "producer" /\ pc[p] = "connect" /\ ~Listening)
          => ENABLED Producer_connect(p))
  /\ [][\A p \in Procs :
          (role[p] = "producer" /\ pc[p] = "connect" /\ ~Listening
             /\ pc'[p] # "connect")
          => (pc'[p] = "done" /\ status'[p] = EXIT_ERR)]_vars

\* the producer has failed while the consumer has bound SOCKET_PATH and
\* not yet called listen
C13_Witness ==
  /\ pc["P1"] = "done" /\ status["P1"] = EXIT_ERR
  /\ pc["C1"] = "listen" /\ sockPath = sock["C1"]
  /\ socks[sockPath].state = "bound"

\* the consumer's recv has returned
HasReceived(c) == pc[c] \in {"close_client", "close_sock", "unlink_end"}

\* C14: with -u, once the consumer's single recv on the producer's
\* connection has returned, the consumer's buffer holds exactly the
\* producer's full message.
C14_FullMessageReceived ==
  \A c \in Procs :
    (role[c] = "consumer" /\ HasReceived(c)) => buffer[c] = args["P1"].message

\* ========================================================= long messages
\* a -m argument of n characters
LongMessage(n) == [i \in 1..n |-> 1]

\* the lengths around the size of the two arrays: the longest string that
\* fits with its terminator, and one and two characters more
LongLengths == {MAX_MESSAGE_LENGTH - 1, MAX_MESSAGE_LENGTH, MAX_MESSAGE_LENGTH + 1}

\* One producer run with a long message and one consumer run, with -s;
\* the consumer is launched once segment and semaphores exist.
InitLong ==
  /\ InitKernel
  /\ InitLocals
  /\ role = [p \in Procs |-> CASE p = "P1" -> "producer"
                               [] p = "C1" -> "consumer"
                               [] OTHER    -> "none"]
  /\ \E g \in {Created, After({"P1"})} :
       gate = [p \in Procs |-> IF p = "C1" THEN g ELSE Anytime]
  /\ \E n \in LongLengths, e \in BOOLEAN :
       args = [p \in Procs |-> CASE p = "P1" -> Args(LongMessage(n), 1, e)
                                 [] p = "C1" -> Args(ConsumerMessage, 1, e)
                                 [] OTHER    -> NoArgs]

SpecLong == InitLong /\ [][Next]_vars

\* The same pair of runs with -u.
InitSocketLong ==
  /\ InitKernel
  /\ InitLocals
  /\ role = [p \in Procs |-> CASE p = "P1" -> "producer"
                               [] p = "C1" -> "consumer"
                               [] OTHER    -> "none"]
  /\ gate = [p \in Procs |-> Anytime]
  /\ \E n \in LongLengths :
       args = [p \in Procs |-> CASE p = "P1" -> Args(LongMessage(n), 1, FALSE)
                                 [] p = "C1" -> Args(ConsumerMessage, 1, FALSE)
                                 [] OTHER    -> NoArgs]

SpecSocketLong == InitSocketLong /\ [][NextSocket]_vars

\* C12: the string in a mailbox and the string in a consumer's buffer,
\* terminator included, occupy at most MAX_MESSAGE_LENGTH bytes, whatever
\* the length of the producer's message.
C12_WithinBuffer ==
  /\ \A s \in 1..Len(segs) : Len(segs[s].message) + 1 <= MAX_MESSAGE_LENGTH
  /\ \A c \in Procs : Len(buffer[c]) + 1 <= MAX_MESSAGE_LENGTH

\* ============================================ two writes before one read
\* Producer P1 with message 1, then producer P2 with message 2 once P1 has
\* terminated, both with the same -q; consumers C1 and C2 are launched
\* once P2 has terminated.
InitOverwrite ==
  /\ InitKernel
  /\ InitLocals
  /\ role = [p \in Procs |-> CASE p \in {"P1", "P2"} -> "producer"
                               [] p \in {"C1", "C2"} -> "consumer"
                               [] OTHER              -> "none"]
  /\ gate = [p \in Procs |-> CASE p = "P2" -> After({"P1"})
                               [] p \in {"C1", "C2"} -> CreatedAfter({"P2"})
                               [] OTHER -> Anytime]
  /\ \E d \in Depths, e \in BOOLEAN :
       args = [p \in Procs |-> CASE p = "P1" -> Args(<<1>>, d, FALSE)
                                 [] p = "P2" -> Args(<<2>>, d, FALSE)
                                 [] p \in {"C1", "C2"} -> Args(ConsumerMessage, d, e)
                                 [] OTHER    -> NoArgs]

SpecOverwrite == InitOverwrite /\ [][Next]_vars

\* no consumer run has been started
NoConsumerYet == \A c \in Procs : role[c] = "consumer" => pc[c] = "main"

\* C15: with queue depth 2 or more and no consumer run in between, the
\* second producer is not held at sem_wait(empty) after the first has
\* written; when both have completed the mailbox holds the second message
\* only, still unread, while full-slots counts two; and no consumer run
\* started afterwards ever copies or prints the first message.
C15_SecondWriteReplacesFirst ==
  /\ (pc["P2"] = "wait_empty" /\ args["P2"].queue_depth >= 2)
       => sem_wait_enabled(empty["P2"])
  /\ (NoConsumerYet /\ pc["P2"] = "done")
       => /\ status["P1"] = EXIT_OK /\ status["P2"] = EXIT_OK
          /\ shmKey # NoKey
          /\ segs[shmKey].message = args["P2"].message
          /\ segs[shmKey].unread
          /\ sems[semNames["/full_sem"]] = 2
  /\ \A c \in Procs :
       role[c] = "consumer"
         => /\ buffer[c] # args["P1"].message
            /\ \A i \in 1..Len(out[c]) : out[c][i] # args["P1"].message

\* both producers have completed, the second message has replaced the
\* first, and a consumer has then copied out the second message
C15_Witness ==
  /\ args["P1"].queue_depth >= 2
  /\ status["P1"] = EXIT_OK /\ status["P2"] = EXIT_OK
  /\ pc["C1"] = "done" /\ status["C1"] = EXIT_OK /\ ~semErr["C1"]
  /\ buffer["C1"] = args["P2"].message
  /\ pc["C2"] = "done" /\ status["C2"] = EXIT_OK /\ ~semErr["C2"]
  /\ buffer["C2"] = args["P2"].message

\* the counts of mutex, empty-slots and full-slots behind the three names
Counts ==
  <<sems[semNames["/mutex_sem"]], sems[semNames["/empty_sem"]],
    sems[semNames["/full_sem"]]>>

\* the second producer run has completed and no consumer run was started;
\* it found the facility as the first run left it: counts (1, depth - 1, 1)
SecondProducerDone == NoConsumerYet /\ pc["P2"] = "done"

\* segment and names are as the first run left them
FacilityKept ==
  /\ FacilityExists
  /\ shmKey = 1 /\ Len(segs) = 1 /\ Len(sems) = 3
  /\ segs[1].alive /\ ~segs[1].rmid /\ segs[1].nattch = 0 /\ segs[1].is_empty = 0

\* C16 as stated: a completed producer run after the first, with no consumer
\* run, leaves segment, names and the three counts as it found them.
C16_ProducerRunLeavesCounts ==
  SecondProducerDone =>
    /\ FacilityKept
    /\ Counts = <<1, args["P1"].queue_depth - 1, 1>>

\* C16 amended: a completed producer run after the first, with no consumer
\* run, leaves segment, names and the count of mutex as it found them, and
\* leaves empty-slots one lower and full-slots one higher.
C16_ProducerRunMovesOneSlot ==
  SecondProducerDone =>
    /\ status["P2"] = EXIT_OK
    /\ FacilityKept
    /\ Counts = <<1, args["P1"].queue_depth - 2, 2>>

C16_Witness ==
  /\ SecondProducerDone
  /\ args["P1"].queue_depth = 2
  /\ Counts = <<1, 0, 2>>
  /\ segs[shmKey].message = args["P2"].message

\* ================================================== a run killed mid-way
\* mutant: the kernel gives the unit back when the holder dies
sem_released_on_kill(h) == sem_post(h)

\* A POSIX semaphore is not tied to the process that has taken a unit:
\* when the process dies the count stays as it is.
sem_on_kill(h) == sems

\* Run p is killed between its sem_wait(mutex) and its sem_post(mutex):
\* the kernel detaches its segment and closes its semaphores; holds[p]
\* keeps naming the semaphore whose unit is lost with the process.
crash(p) ==
  /\ pc[p] \in {"strcpy", "set_flag", "post_mutex"}
  /\ holds[p] # 0
  /\ pc' = [pc EXCEPT ![p] = "done"]
  /\ status' = [status EXCEPT ![p] = SIGKILL]
  /\ segs' = shmdt(shared_queue[p])
  /\ sems' = sem_on_kill(holds[p])
  /\ shmid' = [shmid EXCEPT ![p] = 0]
  /\ shared_queue' = [shared_queue EXCEPT ![p] = NullPtr]
  /\ mutex' = [mutex EXCEPT ![p] = SEM_FAILED]
  /\ empty' = [empty EXCEPT ![p] = SEM_FAILED]
  /\ full' = [full EXCEPT ![p] = SEM_FAILED]
  /\ UNCHANGED <<config, net, created, shmKey, semNames, buffer, out, semErr, holds>>

NextCrash == Next \/ \E p \in Procs : crash(p)

\* Runs that may be killed while they hold mutex, and runs launched after
\* them, all with the same -q:
\*   "producer first": P1, and once P1 has ended a producer P2 and a consumer C1;
\*   "pair first":     P1, then C1 once P1 has ended, and once both have
\*                     ended a producer P2 and a consumer C2.
InitCrash ==
  /\ InitKernel
  /\ InitLocals
  /\ \E scenario \in {"producer first", "pair first"} :
       /\ role = [p \in Procs |->
                    CASE p \in {"P1", "P2"} -> "producer"
                      [] p = "C1" -> "consumer"
                      [] p = "C2" -> IF scenario = "pair first" THEN "consumer" ELSE "none"
                      [] OTHER -> "none"]
       /\ gate = [p \in Procs |->
                    CASE p = "C1" -> After({"P1"})
                      [] p \in {"P2", "C2"} -> IF scenario = "pair first"
                                                 THEN After({"P1", "C1"}) ELSE After({"P1"})
                      [] OTHER -> Anytime]
  /\ \E d \in Depths :
       args = [p \in Procs |-> CASE p = "P1" -> Args(<<1>>, d, FALSE)
                                 [] p = "P2" -> Args(<<2>>, d, FALSE)
                                 [] OTHER    -> Args(ConsumerMessage, d, TRUE)]

SpecCrash == InitCrash /\ [][NextCrash]_vars

\* run v has been killed while it held mutex
Killed(v) == pc[v] = "done" /\ status[v] = SIGKILL /\ holds[v] # 0

\* run q is launched only after run v has ended
Later(q, v) == role[q] # "none" /\ v \in gate[q].after

\* no run was in progress while v ran: every other run ended before v was
\* launched or is launched after v has ended
Alone(v) ==
  \A q \in Procs \ {v} : role[q] = "none" \/ Later(q, v) \/ Later(v, q)

\* the run is inside sem_wait of its slot semaphore and cannot return
BlockedOnSlot(q) ==
  \/ pc[q] = "wait_empty" /\ ~sem_wait_enabled(empty[q])
  \/ pc[q] = "wait_full" /\ full[q] # SEM_FAILED /\ ~sem_wait_enabled(full[q])

InFlight(e, f) ==
  {q \in Procs :
     \/ /\ role[q] = "producer" /\ empty[q] = e
        /\ pc[q] \in {"wait_mutex", "strcpy", "set_flag", "post_mutex", "post_full"}
     \/ /\ role[q] = "consumer" /\ full[q] = f
        /\ pc[q] \in {"wait_mutex", "strcpy", "set_flag", "post_mutex", "post_empty"}}

\* C18: for every empty-slots and full-slots semaphore created by the same
\* run, the two counts plus the number of runs between their slot acquire
\* and their slot release equal the queue depth of that run, so the two
\* counts never exceed that depth.  (Stated for the states in which no
\* semaphore call has returned an error; see C10 for those.)
C18_SlotsConserved ==
  (\A q \in Procs : ~semErr[q]) =>
    \A e \in 1..Len(sems), f \in 1..Len(sems) :
      (/\ created[e].name = "/empty_sem"
       /\ created[f].name = "/full_sem"
       /\ created[e].by = created[f].by)
      => /\ sems[e] + sems[f] + Cardinality(InFlight(e, f)) = created[e].depth
         /\ sems[e] + sems[f] <= created[e].depth

\* the message of producer p has been copied out by a consumer, or lies in
\* the segment bound to the key, where the next consumer run finds it
Deliverable(p) ==
  \/ \E c \in Procs : role[c] = "consumer" /\ buffer[c] = args[p].message
  \/ shmKey # NoKey /\ segs[shmKey].message = args[p].message

\* C19: no producer copies its message into a segment that IPC_RMID has
\* already marked, and when a producer run ends with exit status 0 its
\* message has been copied out by a consumer or lies in the segment bound
\* to the key.
C19_NoWriteAfterRemoval ==
  [][\A p \in Procs :
       role[p] = "producer" =>
         /\ (pc[p] = "strcpy" /\ pc'[p] = "set_flag")
              => ~segs[shared_queue[p]].rmid
         /\ (pc[p] = "sem_close" /\ pc'[p] = "done" /\ status'[p] = EXIT_OK)
              => Deliverable(p)']_vars

\* run p has passed its sem_open of mutex
HasMutex(p) ==
  pc[p] \notin {"main", "shmget", "shmat", "open_mutex", "done"}
    /\ mutex[p] # SEM_FAILED

\* C20: two runs that are attached to the same segment and have both
\* opened mutex have opened the same semaphore, and likewise for
\* empty-slots and full-slots once both have opened them.
C20_OneFacilityInstance ==
  \A p \in Procs, q \in Procs :
    (shared_queue[p] # NullPtr /\ shared_queue[p] = shared_queue[q])
    => /\ (HasMutex(p) /\ HasMutex(q)) => mutex[p] = mutex[q]
       /\ (empty[p] # SEM_FAILED /\ empty[q] # SEM_FAILED) => empty[p] = empty[q]
       /\ (full[p] # SEM_FAILED /\ full[q] # SEM_FAILED) => full[p] = full[q]

====
